---- MODULE Spec2Model ----
(***************************************************************************)
(* Portfolio ledger of src/trading_agents/backtest/portifolio.py, with     *)
(* the drawdown and the benchmark alignment of                             *)
(* src/trading_agents/backtest/metrics.py.                                 *)
(*                                                                         *)
(* Python floats are modelled as exact rationals in fixed point:           *)
(*   - a price is an integer number of 1/PriceDen currency units;          *)
(*   - a money amount (cash, commission, total_cost, market value) is an   *)
(*     integer number of "ticks", one tick = 1/CashDen currency unit,      *)
(*     CashDen = PriceDen * CommissionDen, so that shares * price and the  *)
(*     commission on it are exact;                                         *)
(*   - a target percentage is an integer number of 1/PctDen percent;       *)
(*   - avg_price and the daily return are reduced fractions [num, den].    *)
(* An Optional value is a sequence: None is << >>, a value x is << x >>.   *)
(* The positions dict is a sequence of Position records in insertion       *)
(* order (the iteration order of a Python dict), with unique tickers.      *)
(* call and ret hold the last call with its arguments and what it          *)
(* returned; the functions of metrics.py take their arguments from call.   *)
(***************************************************************************)
EXTENDS Integers, Sequences, FiniteSets, TLC

VARIABLES initial_capital, cash, positions, trades, history, call, ret

vars == <<initial_capital, cash, positions, trades, history, call, ret>>

(* ------------------------------ bounds --------------------------------- *)
\* resolution of prices: prices are multiples of 1/PriceDen
PriceDen == 2
\* resolution of target percentages: multiples of 1/PctDen percent
PctDen == 2
\* longest Trade Ledger explored
MaxTrades == 2
\* longest history explored
MaxHistory == 1
\* largest total value (in currency units) explored; keeps every product of
\* the fixed-point arithmetic within a machine integer
MaxValue == 2000

(* ------------------------ program constants ---------------------------- *)
\* commission_pct = 0.001 = CommissionNum / CommissionDen
CommissionNum == 1
CommissionDen == 1000
\* min_position_size = 0.01, as a percentage
MinPositionPct == 1
\* max_position_size = 0.15, as a percentage
MaxPositionPct == 15

\* ticks per currency unit
CashDen == PriceDen * CommissionDen
\* 1 + commission_pct = OnePlusComm / CommissionDen
OnePlusComm == CommissionDen + CommissionNum
\* target_value = target_pct / 100 * total_value is N / ValueDen ticks
ValueDen == 100 * PctDen

(* ------------------------------ inputs --------------------------------- *)
Tickers == {"PETR4", "VALE3"}
\* 0.5 and 20.0 currency units when PriceDen = 2
Prices == {1, 40}
\* 0.5 %, 5 % and 20 % when PctDen = 2
TargetPcts == {1, 10, 20 * PctDen}
Dates == {1}
Capitals == {0, 200}
\* daily rates, whole multiples of 100 % so that interest stays exact
Rates == {0, 1}
Reasons == {"SIGNAL"}

None == << >>
Some(x) == << x >>
\* Python truthiness of an Optional[float]: None and 0.0 are falsy
Truthy(o) == o # None /\ o[1] # 0

(* --------------------------- arithmetic -------------------------------- *)
RECURSIVE GCD(_, _)
GCD(a, b) == IF b = 0 THEN a ELSE GCD(b, a % b)

Abs(x) == IF x < 0 THEN -x ELSE x

\* the reduced fraction n / d with a positive denominator, d # 0
Frac(n, d) ==
    LET g == GCD(Abs(n), Abs(d))
    IN  IF n = 0 THEN [num |-> 0, den |-> 1]
        ELSE IF d < 0 THEN [num |-> (-n) \div g, den |-> (-d) \div g]
        ELSE [num |-> n \div g, den |-> d \div g]

\* floor(a * b / d) and (a * b) mod d for a >= 0, b > 0, d > 0, computed
\* without forming a * b (which may not fit a machine integer)
MulDiv(a, b, d) == (a \div d) * b + (((a % d) * b) \div d)
MulMod(a, b, d) == ((a % d) * b) % d

\* Python int(): truncation toward zero of n / d, d # 0
IntTrunc(n, d) ==
    IF (n < 0) = (d < 0) THEN Abs(n) \div Abs(d) ELSE -(Abs(n) \div Abs(d))

(* ----------------------------- Position -------------------------------- *)
market_value(pos) == pos.shares * pos.current_price * CommissionDen

should_stop_loss(pos) ==
    IF pos.stop_loss = None THEN FALSE
    ELSE pos.current_price <= pos.stop_loss[1]

\* variant: the level has to be exceeded
should_take_profit_strict(pos) ==
    IF pos.take_profit = None THEN FALSE
    ELSE pos.current_price > pos.take_profit[1]

should_take_profit(pos) ==
    IF pos.take_profit = None THEN FALSE
    ELSE pos.current_price >= pos.take_profit[1]

(* ----------------------------- Portfolio ------------------------------- *)
HasPos(ps, ticker) == \E i \in 1..Len(ps) : ps[i].ticker = ticker
PosIndex(ps, ticker) == CHOOSE i \in 1..Len(ps) : ps[i].ticker = ticker
PosOf(ps, ticker) == ps[PosIndex(ps, ticker)]

\* variant: only the first position is valued
positions_value_first(ps) ==
    IF ps = << >> THEN 0 ELSE market_value(Head(ps))

RECURSIVE positions_value(_)
positions_value(ps) ==
    IF ps = << >> THEN 0 ELSE market_value(Head(ps)) + positions_value(Tail(ps))

total_value(c, ps) == c + positions_value(ps)

num_positions(ps) == Len(ps)

\* variant: the percentage is compared with the fraction 0.01, not with 1 %
below_minimum_fraction(target_pct) == target_pct * 100 < MinPositionPct * PctDen

\* target_pct < self.min_position_size * 100
below_minimum(target_pct) == target_pct < MinPositionPct * PctDen

\* variant: the target is not clamped
clamp_target_none(target_pct) == target_pct

\* if target_pct > self.max_position_size * 100: target_pct = that maximum
clamp_target(target_pct) ==
    IF target_pct > MaxPositionPct * PctDen THEN MaxPositionPct * PctDen ELSE target_pct

\* variant: no increment is found too small
increment_too_small_never(n, tv) == FALSE

\* additional_value < self.total_value * self.min_position_size, with the
\* value n given in 1/ValueDen ticks and tv in ticks
increment_too_small(n, tv) == n < tv * MinPositionPct * PctDen

\* variant: the cash is never found insufficient
cash_insufficient_never(n, c) == FALSE

\* required_cash > self.cash, with required_cash = n/ValueDen * (1 + commission_pct)
cash_insufficient(n, c) ==
    LET k == ValueDen * CommissionDen
        q == MulDiv(n, OnePlusComm, k)
        r == MulMod(n, OnePlusComm, k)
    IN  q > c \/ (q = c /\ r > 0)

\* self.cash / (1 + commission_pct) < self.total_value * self.min_position_size
shrunk_too_small(c, tv) ==
    MulDiv(c, CommissionDen * 100, OnePlusComm) < tv * MinPositionPct

\* can_buy: (pode_comprar, int(target_value), motivo); value is in whole
\* currency units, the message is modelled by its kind
can_buy(c, ps, ticker, target_pct) ==
    IF below_minimum(target_pct)
    THEN [ok |-> FALSE, value |-> 0, msg |-> "below_min"]
    ELSE
      LET pct  == clamp_target(target_pct)
          tv   == total_value(c, ps)
          n0   == pct * tv
          held == HasPos(ps, ticker)
          n    == IF held THEN n0 - ValueDen * market_value(PosOf(ps, ticker)) ELSE n0
      IN  IF held /\ increment_too_small(n, tv)
          THEN [ok |-> FALSE, value |-> 0, msg |-> "increment_too_small"]
          ELSE IF cash_insufficient(n, c)
          THEN IF shrunk_too_small(c, tv)
               THEN [ok |-> FALSE, value |-> 0, msg |-> "insufficient_cash"]
               ELSE [ok |-> TRUE, value |-> c \div (OnePlusComm * PriceDen), msg |-> "OK"]
          ELSE [ok |-> TRUE, value |-> IntTrunc(n, ValueDen * CashDen), msg |-> "OK"]

\* variant: round(target_value / price), halves rounded up
buy_shares_round(target_value, price) ==
    IntTrunc(2 * target_value * PriceDen + price, 2 * price)

\* shares = int(target_value / price)
buy_shares(target_value, price) == IntTrunc(target_value * PriceDen, price)

\* shares = int(self.cash / (price * (1 + self.commission_pct)))
shrink_shares(c, price) == IntTrunc(c, price * OnePlusComm)

\* variant: commission_pct taken as a percentage, commission 100 times larger
buy_cost_percent(shares, price) ==
    [trade_value |-> shares * price * CommissionDen,
     commission  |-> shares * price * CommissionNum * 100,
     total_cost  |-> shares * price * CommissionDen + shares * price * CommissionNum * 100]

\* trade_value, commission and total_cost of a buy, in ticks
buy_cost(shares, price) ==
    [trade_value |-> shares * price * CommissionDen,
     commission  |-> shares * price * CommissionNum,
     total_cost  |-> shares * price * CommissionDen + shares * price * CommissionNum]

\* variant: the level of the call always replaces the level of the position
overwrite_level_always(old, level) == level

\* if stop_loss: pos.stop_loss = stop_loss (and the same for take_profit)
overwrite_level(old, level) == IF Truthy(level) THEN level ELSE old

\* variant: the plain mean of the old average and the new price
average_price_unweighted(pos, shares, price) ==
    Frac(pos.avg_price.num + price * pos.avg_price.den, 2 * pos.avg_price.den)

\* pos.avg_price = (old_cost + new_cost) / pos.shares, after pos.shares += shares
average_price(pos, shares, price) ==
    Frac(pos.shares * pos.avg_price.num + shares * price * pos.avg_price.den,
         pos.avg_price.den * (pos.shares + shares))

\* variant: a top-up marks the position at its new average price
merge_position_mark_avg(pos, shares, price, stop_loss, take_profit) ==
    LET total == pos.shares + shares
        cost  == pos.shares * pos.avg_price.num + shares * price * pos.avg_price.den
    IN  [pos EXCEPT !.shares = total,
                    !.avg_price = Frac(cost, pos.avg_price.den * total),
                    !.current_price = cost \div (pos.avg_price.den * total),
                    !.stop_loss = overwrite_level(@, stop_loss),
                    !.take_profit = overwrite_level(@, take_profit)]

\* the Position after adding `shares` bought at `price` to pos
merge_position(pos, shares, price, stop_loss, take_profit) ==
    LET total == pos.shares + shares
    IN  [pos EXCEPT !.shares = total,
                    !.avg_price = average_price(pos, shares, price),
                    !.current_price = price,
                    !.stop_loss = overwrite_level(@, stop_loss),
                    !.take_profit = overwrite_level(@, take_profit)]

new_position(ticker, shares, price, date, stop_loss, take_profit) ==
    [ticker |-> ticker, shares |-> shares, avg_price |-> Frac(price, 1),
     current_price |-> price, entry_date |-> date,
     stop_loss |-> stop_loss, take_profit |-> take_profit]

\* variant: the trade is inserted at the front of the ledger
record_trade_front(trs, trade) == << trade >> \o trs

\* self.trades.append(trade)
record_trade(trs, trade) == Append(trs, trade)

\* variant: a refused order is logged in the ledger as a zero-share trade
no_trade_logged(st) ==
    [cash |-> st.cash, positions |-> st.positions,
     trades |-> Append(st.trades,
          [date |-> 0, ticker |-> "NONE", action |-> "BUY", shares |-> 0, price |-> 0,
           commission |-> 0, total_cost |-> 0, reason |-> "REJECTED"]),
     ret |-> None]

\* return None of buy and sell: nothing was touched
no_trade(st) ==
    [cash |-> st.cash, positions |-> st.positions, trades |-> st.trades, ret |-> None]

\* buy on the state st = [cash, positions, trades]; result is the new state
\* and the returned Optional[Trade]
buy(st, ticker, price, target_pct, date, stop_loss, take_profit, reason) ==
    LET unchanged == no_trade(st)
        cb      == can_buy(st.cash, st.positions, ticker, target_pct)
        shares0 == buy_shares(cb.value, price)
        over    == buy_cost(shares0, price).total_cost > st.cash
        shares  == IF over THEN shrink_shares(st.cash, price) ELSE shares0
        cost    == buy_cost(shares, price)
        trade   == [date |-> date, ticker |-> ticker, action |-> "BUY",
                    shares |-> shares, price |-> price,
                    commission |-> cost.commission,
                    total_cost |-> cost.total_cost, reason |-> reason]
        i       == PosIndex(st.positions, ticker)
    IN  IF ~cb.ok THEN unchanged
        ELSE IF shares0 = 0 THEN unchanged
        ELSE IF over /\ shares = 0 THEN unchanged
        ELSE [cash |-> st.cash - cost.total_cost,
              positions |->
                 IF HasPos(st.positions, ticker)
                 THEN [st.positions EXCEPT
                         ![i] = merge_position(@, shares, price, stop_loss, take_profit)]
                 ELSE Append(st.positions,
                         new_position(ticker, shares, price, date, stop_loss, take_profit)),
              trades |-> record_trade(st.trades, trade),
              ret |-> Some(trade)]

\* variant: no commission is charged on a sell
sell_proceeds_gross(shares, price) ==
    [trade_value  |-> shares * price * CommissionDen,
     commission   |-> 0,
     net_proceeds |-> shares * price * CommissionDen]

\* proceeds of a sell, in ticks
sell_proceeds(shares, price) ==
    [trade_value  |-> shares * price * CommissionDen,
     commission   |-> shares * price * CommissionNum,
     net_proceeds |-> shares * price * CommissionDen - shares * price * CommissionNum]

\* variant: the SELL trade records +net_proceeds
sell_total_cost_positive(net_proceeds) == net_proceeds

\* total_cost of a SELL trade: -net_proceeds, negative = cash inflow
sell_total_cost(net_proceeds) == -net_proceeds

\* variant: an emptied position is kept
remove_never(ps, ticker) == ps

\* if pos.shares == 0: del self.positions[ticker]
remove_if_empty(ps, ticker) ==
    IF PosOf(ps, ticker).shares = 0
    THEN SelectSeq(ps, LAMBDA p : p.ticker # ticker)
    ELSE ps

\* variant: the requested count is not clamped to the position size
sell_shares_unclamped(shares, held) == IF shares = None THEN held ELSE shares[1]

\* shares = min(shares, pos.shares), after defaulting None to pos.shares
sell_shares(shares, held) ==
    LET asked == IF shares = None THEN held ELSE shares[1]
    IN  IF asked < held THEN asked ELSE held

\* variant: only a negative count is refused
nothing_to_sell_negative(n) == n < 0

\* if shares == 0: return None
nothing_to_sell(n) == n = 0

\* variant: whatever is sold, the position is emptied
decrement_shares_all(pos, n) == [pos EXCEPT !.shares = 0]

\* pos.shares -= shares
decrement_shares(pos, n) == [pos EXCEPT !.shares = @ - n]

sell(st, ticker, price, date, shares, reason) ==
    LET unchanged == no_trade(st)
        i     == PosIndex(st.positions, ticker)
        pos   == st.positions[i]
        n     == sell_shares(shares, pos.shares)
        pr    == sell_proceeds(n, price)
        trade == [date |-> date, ticker |-> ticker, action |-> "SELL",
                  shares |-> n, price |-> price,
                  commission |-> pr.commission,
                  total_cost |-> sell_total_cost(pr.net_proceeds), reason |-> reason]
        left  == [st.positions EXCEPT ![i] = decrement_shares(@, n)]
    IN  IF ~HasPos(st.positions, ticker) THEN unchanged
        ELSE IF nothing_to_sell(n) THEN unchanged
        ELSE [cash |-> st.cash + pr.net_proceeds,
              positions |-> remove_if_empty(left, ticker),
              trades |-> record_trade(st.trades, trade),
              ret |-> Some(trade)]

\* variant: the take-profit level is looked at first
closing_reason_take_first(pos) ==
    IF should_take_profit(pos) THEN << "TAKE_PROFIT" >>
    ELSE IF should_stop_loss(pos) THEN << "STOP_LOSS" >>
    ELSE << >>

\* if pos.should_stop_loss(): ... elif pos.should_take_profit(): ...
closing_reason(pos) ==
    IF should_stop_loss(pos) THEN << "STOP_LOSS" >>
    ELSE IF should_take_profit(pos) THEN << "TAKE_PROFIT" >>
    ELSE << >>

\* first loop of check_stops: (ticker, current_price, reason) of every
\* triggering position, in iteration order
RECURSIVE tickers_to_close(_)
tickers_to_close(ps) ==
    IF ps = << >> THEN << >>
    ELSE LET pos == Head(ps)
             hit == IF closing_reason(pos) # << >>
                    THEN << [ticker |-> pos.ticker, price |-> pos.current_price,
                             reason |-> closing_reason(pos)[1]] >>
                    ELSE << >>
         IN  hit \o tickers_to_close(Tail(ps))

\* second loop of check_stops: sells them in order, collecting the trades
RECURSIVE execute_closes(_, _, _)
execute_closes(st, todo, date) ==
    IF todo = << >> THEN st
    ELSE LET r == sell([cash |-> st.cash, positions |-> st.positions, trades |-> st.trades],
                       Head(todo).ticker, Head(todo).price, date, None, Head(todo).reason)
         IN  execute_closes([cash |-> r.cash, positions |-> r.positions,
                             trades |-> r.trades,
                             ret |-> IF r.ret # None THEN st.ret \o r.ret ELSE st.ret],
                            Tail(todo), date)

\* variant: only the first triggering position is closed in a call
check_stops_first(st, date) ==
    execute_closes([cash |-> st.cash, positions |-> st.positions,
                    trades |-> st.trades, ret |-> << >>],
                   IF tickers_to_close(st.positions) = << >> THEN << >>
                   ELSE << Head(tickers_to_close(st.positions)) >>, date)

\* check_stops: the triggers are collected first, then sold
check_stops(st, date) ==
    execute_closes([cash |-> st.cash, positions |-> st.positions,
                    trades |-> st.trades, ret |-> << >>],
                   tickers_to_close(st.positions), date)

\* variant: the given price is added to the mark
update_prices_added(ps, prices) ==
    [i \in 1..Len(ps) |->
        IF ps[i].ticker \in DOMAIN prices
        THEN [ps[i] EXCEPT !.current_price = @ + prices[ps[i].ticker]]
        ELSE ps[i]]

\* update_prices with prices a function from a subset of Tickers to prices
update_prices(ps, prices) ==
    [i \in 1..Len(ps) |->
        IF ps[i].ticker \in DOMAIN prices
        THEN [ps[i] EXCEPT !.current_price = prices[ps[i].ticker]]
        ELSE ps[i]]

\* daily_return of record_state, in percent, as a fraction
\* variant: the return is left as a fraction of the previous value
daily_return_fraction(h, total) ==
    IF Len(h) > 0
    THEN LET prev_value == h[Len(h)].total_value
         IN  IF prev_value > 0 THEN Frac(total - prev_value, prev_value)
             ELSE Frac(0, 1)
    ELSE Frac(0, 1)

daily_return(h, total) ==
    IF Len(h) > 0
    THEN LET prev_value == h[Len(h)].total_value
         IN  IF prev_value > 0 THEN Frac((total - prev_value) * 100, prev_value)
             ELSE Frac(0, 1)
    ELSE Frac(0, 1)

\* variant: the new record replaces the last one
record_state_replace(h, c, ps, date) ==
    Append(IF h = << >> THEN h ELSE SubSeq(h, 1, Len(h) - 1),
           [date |-> date,
            total_value |-> total_value(c, ps),
            cash |-> c,
            positions_value |-> positions_value(ps),
            num_positions |-> num_positions(ps),
            returns |-> daily_return(h, total_value(c, ps))])

\* record_state: one append to each list of self.history
record_state(h, c, ps, date) ==
    Append(h, [date |-> date,
               total_value |-> total_value(c, ps),
               cash |-> c,
               positions_value |-> positions_value(ps),
               num_positions |-> num_positions(ps),
               returns |-> daily_return(h, total_value(c, ps))])

\* variant: the interest is the compounded cash
selic_interest_compounded(c, selic_daily_rate) == c * (1 + selic_daily_rate)

\* interest = self.cash * selic_daily_rate
selic_interest(c, selic_daily_rate) == c * selic_daily_rate

apply_selic_to_cash(st, date, selic_daily_rate) ==
    IF st.cash > 0
    THEN LET interest == selic_interest(st.cash, selic_daily_rate)
         IN  [cash |-> st.cash + interest,
              positions |-> st.positions,
              trades |-> record_trade(st.trades,
                   [date |-> date, ticker |-> "SELIC", action |-> "INTEREST",
                    shares |-> 0, price |-> 0, commission |-> 0,
                    total_cost |-> -interest, reason |-> "SELIC_YIELD"])]
    ELSE [cash |-> st.cash, positions |-> st.positions, trades |-> st.trades]

(* ------------------------------ actions -------------------------------- *)
State == [cash |-> cash, positions |-> positions, trades |-> trades]

\* the explored states keep the total value within MaxValue
InRange(c, ps) == total_value(c, ps) <= MaxValue * CashDen

Init ==
    /\ initial_capital \in {c * CashDen : c \in Capitals}
    /\ cash = initial_capital
    /\ positions = << >>
    /\ trades = << >>
    /\ history = << >>
    /\ call = [op |-> "init"]
    /\ ret = None

Buy(ticker, price, target_pct, date, stop_loss, take_profit, reason) ==
    /\ LET r == buy(State, ticker, price, target_pct, date, stop_loss, take_profit, reason)
       IN  /\ InRange(r.cash, r.positions)
           /\ cash' = r.cash
           /\ positions' = r.positions
           /\ trades' = r.trades
           /\ ret' = r.ret
    /\ call' = [op |-> "buy", ticker |-> ticker, price |-> price,
                target_pct |-> target_pct, date |-> date,
                stop_loss |-> stop_loss, take_profit |-> take_profit]
    /\ UNCHANGED <<initial_capital, history>>

Sell(ticker, price, date, shares, reason) ==
    /\ LET r == sell(State, ticker, price, date, shares, reason)
       IN  /\ InRange(r.cash, r.positions)
           /\ cash' = r.cash
           /\ positions' = r.positions
           /\ trades' = r.trades
           /\ ret' = r.ret
    /\ call' = [op |-> "sell", ticker |-> ticker, price |-> price,
                date |-> date, shares |-> shares]
    /\ UNCHANGED <<initial_capital, history>>

CheckStops(date) ==
    /\ LET r == check_stops(State, date)
       IN  /\ InRange(r.cash, r.positions)
           /\ cash' = r.cash
           /\ positions' = r.positions
           /\ trades' = r.trades
           /\ ret' = r.ret
    /\ call' = [op |-> "check_stops", date |-> date, positions |-> positions]
    /\ UNCHANGED <<initial_capital, history>>

UpdatePrices(prices) ==
    /\ InRange(cash, update_prices(positions, prices))
    /\ positions' = update_prices(positions, prices)
    /\ call' = [op |-> "update_prices", prices |-> prices]
    /\ ret' = None
    /\ UNCHANGED <<initial_capital, cash, trades, history>>

ApplySelic(date, selic_daily_rate) ==
    /\ LET r == apply_selic_to_cash(State, date, selic_daily_rate)
       IN  /\ InRange(r.cash, r.positions)
           /\ cash' = r.cash
           /\ positions' = r.positions
           /\ trades' = r.trades
    /\ call' = [op |-> "apply_selic_to_cash", date |-> date, rate |-> selic_daily_rate]
    /\ ret' = None
    /\ UNCHANGED <<initial_capital, history>>

RecordState(date) ==
    /\ history' = record_state(history, cash, positions, date)
    /\ call' = [op |-> "record_state", date |-> date]
    /\ ret' = None
    /\ UNCHANGED <<initial_capital, cash, positions, trades>>

\* the buy orders explored: PETR4 at every price and sizeable target without
\* levels, PETR4 with a stop at the lowest price with and without a take at
\* the highest price, one PETR4 order below the sizing floor, and one plain
\* VALE3 order
BuyOrders ==
    [ticker : {"PETR4"}, price : Prices, target_pct : TargetPcts \ {1},
     stop_loss : {None}, take_profit : {None}]
    \cup [ticker : {"PETR4"}, price : {1}, target_pct : {20 * PctDen},
          stop_loss : {Some(1)}, take_profit : {None, Some(40)}]
    \cup [ticker : {"PETR4"}, price : {1}, target_pct : {1},
          stop_loss : {None}, take_profit : {None}]
    \cup [ticker : {"VALE3"}, price : {1}, target_pct : {20 * PctDen},
          stop_loss : {None}, take_profit : {None}]

\* the sell orders explored: all of PETR4 (None), one share, more than is
\* ever held, and zero shares; all of VALE3
SellOrders ==
    [ticker : {"PETR4"}, price : Prices, shares : {None, Some(1), Some(1000)}]
    \cup [ticker : {"PETR4"}, price : {1}, shares : {Some(0)}]
    \cup [ticker : {"VALE3"}, price : Prices, shares : {None}]

PriceMaps == UNION {[S -> Prices] : S \in SUBSET Tickers}

\* room for n more trades in the explored ledger
Room(n) == Len(trades) + n <= MaxTrades

BuyStep ==
    /\ Room(1)
    /\ \E o \in BuyOrders, date \in Dates, reason \in Reasons :
         Buy(o.ticker, o.price, o.target_pct, date, o.stop_loss, o.take_profit, reason)

SellStep ==
    /\ Room(1)
    /\ \E o \in SellOrders, date \in Dates, reason \in Reasons :
         Sell(o.ticker, o.price, date, o.shares, reason)

CheckStopsStep ==
    /\ Room(Len(tickers_to_close(positions)))
    /\ \E date \in Dates : CheckStops(date)

UpdatePricesStep == \E prices \in PriceMaps : UpdatePrices(prices)

ApplySelicStep ==
    /\ Room(1)
    /\ \E date \in Dates, rate \in Rates : ApplySelic(date, rate)

RecordStateStep ==
    /\ Len(history) < MaxHistory
    /\ \E date \in Dates : RecordState(date)

Next ==
    \/ BuyStep
    \/ SellStep
    \/ CheckStopsStep
    \/ UpdatePricesStep
    \/ ApplySelicStep
    \/ RecordStateStep

Spec == Init /\ [][Next]_vars

(* ---------------- metrics.py: exact rational arithmetic --------------- *)
\* a / b < c / d for b > 0, d > 0, by comparing the continued fractions, so
\* that no product is formed
RECURSIVE RatLess(_, _, _, _)
RatLess(a, b, c, d) ==
    IF a \div b # c \div d THEN a \div b < c \div d
    ELSE IF c % d = 0 THEN FALSE
    ELSE IF a % b = 0 THEN TRUE
    ELSE RatLess(d, c % d, b, a % b)

FracLess(x, y) == RatLess(x.num, x.den, y.num, y.den)

\* x - y
FracSub(x, y) ==
    LET l == (x.den \div GCD(x.den, y.den)) * y.den
    IN  Frac(x.num * (l \div x.den) - y.num * (l \div y.den), l)

\* x * y, cancelling across before multiplying
FracMul(x, y) ==
    LET g1 == GCD(Abs(x.num), y.den)
        g2 == GCD(Abs(y.num), x.den)
    IN  IF x.num = 0 \/ y.num = 0 THEN Frac(0, 1)
        ELSE [num |-> (x.num \div g1) * (y.num \div g2),
              den |-> (x.den \div g2) * (y.den \div g1)]

\* x / y for y > 0
FracDiv(x, y) == FracMul(x, [num |-> y.den, den |-> y.num])

\* Series.cumprod()
RECURSIVE cumprod(_)
cumprod(s) ==
    IF Len(s) <= 1 THEN s
    ELSE LET p == cumprod(SubSeq(s, 1, Len(s) - 1))
         IN  Append(p, FracMul(p[Len(p)], s[Len(s)]))

\* Series.expanding().max()
RECURSIVE expanding_max(_)
expanding_max(s) ==
    IF Len(s) <= 1 THEN s
    ELSE LET m == expanding_max(SubSeq(s, 1, Len(s) - 1))
         IN  Append(m, IF FracLess(m[Len(m)], s[Len(s)]) THEN s[Len(s)]
                       ELSE m[Len(m)])

\* Series.min() and Series.max() of a non-empty series
SeriesMin(s) ==
    s[CHOOSE i \in 1..Len(s) : \A j \in 1..Len(s) : ~FracLess(s[j], s[i])]

SeriesMax(s) ==
    s[CHOOSE i \in 1..Len(s) : \A j \in 1..Len(s) : ~FracLess(s[i], s[j])]

\* variant: the first record's return is kept
after_first_kept(returns) == returns

\* returns = returns[1:]
after_first(returns) == Tail(returns)

\* drawdown.min() * 100 of the daily returns (as fractions) after the first
max_drawdown(returns) ==
    LET cumulative  == cumprod([i \in 1..Len(returns) |->
                                   FracSub(returns[i], Frac(-1, 1))])
        running_max == expanding_max(cumulative)
        drawdown    == [i \in 1..Len(returns) |->
                           FracDiv(FracSub(cumulative[i], running_max[i]),
                                   running_max[i])]
    IN  FracMul(SeriesMin(drawdown), Frac(100, 1))

\* the empty dict
EmptyMetrics == << >>

\* a missing value
NaN == [num |-> 0, den |-> 0]

\* the values of a series that are not missing
RECURSIVE dropna(_)
dropna(s) ==
    IF s = << >> THEN << >>
    ELSE (IF Head(s) = NaN THEN << >> ELSE << Head(s) >>) \o dropna(Tail(s))

\* variant: the deviation is taken to be positive whatever the series
std_positive_always(s) == TRUE

\* Series.std() > 0: the sample deviation (ddof = 1, missing values skipped)
\* is NaN below two values and 0 when all values are equal
std_positive(s) ==
    LET v == dropna(s)
    IN  Len(v) >= 2 /\ \E i, j \in 1..Len(v) : v[i] # v[j]

\* returns - cdi_returns, element by element
excess_over(returns, cdi_returns) ==
    [i \in 1..Len(returns) |->
        IF i > Len(cdi_returns) \/ cdi_returns[i] = NaN THEN NaN
        ELSE FracSub(returns[i], cdi_returns[i])]

\* variant: a return of exactly 0 counts as positive
is_positive_or_zero(r) == r.num >= 0

\* returns > 0, for one value of the series
is_positive(r) == r.num > 0

\* variant: a history of two records is still too short
too_short_two(portfolio_history) == Len(portfolio_history) < 3

\* if len(portfolio_history) < 2: return {}
too_short(portfolio_history) == Len(portfolio_history) < 2

\* calculate_metrics(portfolio_history, cdi_series): cdi_series is None or
\* Some(series of daily rates).  Total values are positive.  The scalars that
\* are rational functions of the history are computed; a scalar that takes a
\* root or a real power is the record of the exact operands of that
\* operation, after the guard that selects it:
\*   annualized_return_pct  (base ** exponent - 1) * 100
\*   volatility_annual_pct  std(std_of) * sqrt(252) * 100
\*   sharpe_ratio           mean / std of excess_returns * sqrt(252), or 0.0
\*   calmar_ratio           abs(annualized / max_drawdown), or 0.0
\*   cdi_total_return_pct   (prod(1 + compounded) - 1) * 100, or
\*                          ((1 + risk_free_rate) ** years - 1) * 100
\*   outperformance_pct     total_return - cdi_total_return
calculate_metrics(portfolio_history, cdi_series) ==
    IF too_short(portfolio_history) THEN EmptyMetrics
    ELSE
    LET returns == after_first([i \in 1..Len(portfolio_history) |->
                       FracDiv(portfolio_history[i].returns, Frac(100, 1))])
        initial_value == portfolio_history[1].total_value
        final_value   == portfolio_history[Len(portfolio_history)].total_value
        total_return  == FracMul(FracSub(Frac(final_value, initial_value),
                                         Frac(1, 1)), Frac(100, 1))
        num_days      == Len(portfolio_history)
        years         == Frac(num_days, 252)
        annualized_return == [base |-> Frac(final_value, initial_value),
                              exponent |-> Frac(252, num_days)]
        excess_returns ==
            IF cdi_series # None
            THEN [minus |-> "cdi_returns",
                  series |-> excess_over(returns, Tail(cdi_series[1]))]
            ELSE [minus |-> "daily_rf", series |-> returns]
        sharpe == IF std_positive(excess_returns.series)
                  THEN [excess_returns |-> excess_returns]
                  ELSE Frac(0, 1)
        maxdd  == max_drawdown(returns)
        calmar == IF maxdd.num # 0
                  THEN [annualized |-> annualized_return, max_drawdown |-> maxdd]
                  ELSE Frac(0, 1)
        positive_days == Cardinality({ i \in 1..Len(returns) : is_positive(returns[i]) })
        cdi_total_return ==
            IF cdi_series # None
            THEN [compounded |-> Tail(cdi_series[1])]
            ELSE [rate |-> "risk_free_rate", years |-> years]
    IN  IF Len(returns) = 0 THEN EmptyMetrics
        ELSE [total_return_pct      |-> total_return,
              annualized_return_pct |-> annualized_return,
              volatility_annual_pct |-> IF Len(returns) >= 2
                                        THEN [std_of |-> returns] ELSE NaN,
              sharpe_ratio          |-> sharpe,
              max_drawdown_pct      |-> maxdd,
              calmar_ratio          |-> calmar,
              win_rate_pct          |-> FracMul(Frac(positive_days, Len(returns)),
                                                Frac(100, 1)),
              best_day_pct          |-> FracMul(SeriesMax(returns), Frac(100, 1)),
              worst_day_pct         |-> FracMul(SeriesMin(returns), Frac(100, 1)),
              cdi_total_return_pct  |-> cdi_total_return,
              outperformance_pct    |-> [total_return |-> total_return,
                                         minus |-> cdi_total_return],
              num_days              |-> num_days,
              num_years             |-> years]

(* ---------------- metrics.py: align_cdi_to_portfolio ------------------- *)
\* cdi_df['cdi_daily'].reindex(portfolio_dates); cdi_df is a function from
\* the dates it covers to the rates
reindex(cdi_df, portfolio_dates) ==
    [i \in 1..Len(portfolio_dates) |->
        IF portfolio_dates[i] \in DOMAIN cdi_df
        THEN Frac(cdi_df[portfolio_dates[i]], 1) ELSE NaN]

\* fillna(method='ffill')
RECURSIVE ffill(_)
ffill(s) ==
    IF Len(s) <= 1 THEN s
    ELSE LET f == ffill(SubSeq(s, 1, Len(s) - 1))
         IN  Append(f, IF s[Len(s)] = NaN THEN f[Len(f)] ELSE s[Len(s)])

RECURSIVE SumOver(_, _)
SumOver(f, S) ==
    IF S = {} THEN 0
    ELSE LET d == CHOOSE x \in S : TRUE IN f[d] + SumOver(f, S \ {d})

\* cdi_df['cdi_daily'].mean(): NaN for an empty column
mean(cdi_df) ==
    IF DOMAIN cdi_df = {} THEN NaN
    ELSE Frac(SumOver(cdi_df, DOMAIN cdi_df), Cardinality(DOMAIN cdi_df))

fillna(s, value) == [i \in 1..Len(s) |-> IF s[i] = NaN THEN value ELSE s[i]]

align_cdi_to_portfolio(portfolio_dates, cdi_df) ==
    LET cdi_aligned == ffill(reindex(cdi_df, portfolio_dates))
    IN  IF \E i \in 1..Len(cdi_aligned) : cdi_aligned[i] = NaN
        THEN fillna(cdi_aligned, mean(cdi_df))
        ELSE cdi_aligned

(* ---------------- metrics.py: inputs and calls ------------------------- *)
MaxSeries == 3

\* total values of the records of a history, in ticks
MetricValues == {80, 100, 125}

\* the series of Scenario C: daily returns 0, 1%, -2%, 3%
ScenarioC == << 1000000, 1010000, 989800, 1019494 >>

ValueSeries ==
    UNION { [1..n -> MetricValues] : n \in 0..MaxSeries } \cup { ScenarioC }

\* the history that record_state writes, one record per date 1, 2, ..., for
\* a portfolio without positions whose total value follows the series
RECURSIVE HistoryOf(_)
HistoryOf(values) ==
    IF values = << >> THEN << >>
    ELSE record_state(HistoryOf(SubSeq(values, 1, Len(values) - 1)),
                      values[Len(values)], << >>, Len(values))

\* daily rates of the source, in units of 1/100000
CdiRates == {35, 50}

\* sources covering any subset of the dates
CdiSources == UNION { [D -> CdiRates] : D \in SUBSET (1..MaxSeries) }

DatesOf(portfolio_history) ==
    [i \in 1..Len(portfolio_history) |-> portfolio_history[i].date]

InitMetrics ==
    /\ initial_capital = 0
    /\ cash = 0
    /\ positions = << >>
    /\ trades = << >>
    /\ history = << >>
    /\ call \in { [op |-> "args", portfolio_history |-> HistoryOf(values),
                   cdi_df |-> cdi_df] :
                     values \in ValueSeries, cdi_df \in CdiSources }
    /\ ret = None

\* cdi_series is absent or the aligned series, in units of 1/100000
CdiSeriesFor(portfolio_history, cdi_df) ==
    { None,
      Some([i \in 1..Len(portfolio_history) |->
               LET r == align_cdi_to_portfolio(DatesOf(portfolio_history), cdi_df)[i]
               IN  IF r = NaN THEN NaN ELSE Frac(r.num, r.den * 100000)]) }

CalculateMetrics ==
    \E cdi_series \in CdiSeriesFor(call.portfolio_history, call.cdi_df) :
        /\ call' = [op |-> "calculate_metrics",
                    portfolio_history |-> call.portfolio_history,
                    cdi_df |-> call.cdi_df, cdi_series |-> cdi_series]
        /\ ret' = Some(calculate_metrics(call.portfolio_history, cdi_series))
        /\ UNCHANGED <<initial_capital, cash, positions, trades, history>>

AlignCdi ==
    /\ call' = [op |-> "align_cdi_to_portfolio",
                portfolio_history |-> call.portfolio_history,
                cdi_df |-> call.cdi_df]
    /\ ret' = Some(align_cdi_to_portfolio(DatesOf(call.portfolio_history),
                                          call.cdi_df))
    /\ UNCHANGED <<initial_capital, cash, positions, trades, history>>

NextMetrics ==
    \/ CalculateMetrics
    \/ AlignCdi

SpecMetrics == InitMetrics /\ [][NextMetrics]_vars

(* ------------- caller faults: negative price, negative shares ---------- *)
MaxFaultTrades == 2

\* a buy at a negative price
FaultBuyOrders ==
    { [ticker |-> "PETR4", price |-> -1, target_pct |-> 20 * PctDen,
       stop_loss |-> None, take_profit |-> None] }

\* a sell at a negative price and a sell of a negative number of shares
FaultSellOrders ==
    { [ticker |-> "PETR4", price |-> -1, shares |-> None],
      [ticker |-> "PETR4", price |-> 1, shares |-> Some(-5)] }

\* room in the explored ledger, and every position long at a positive price:
\* the run is not followed beyond a fault that left a short position
FaultsRoom(n) ==
    /\ Len(trades) + n <= MaxFaultTrades
    /\ \A i \in 1..Len(positions) :
          positions[i].shares > 0 /\ positions[i].avg_price.num > 0

FaultsBuyStep ==
    /\ FaultsRoom(1)
    /\ \E o \in BuyOrders \cup FaultBuyOrders, date \in Dates, reason \in Reasons :
         Buy(o.ticker, o.price, o.target_pct, date, o.stop_loss, o.take_profit, reason)

FaultsSellStep ==
    /\ FaultsRoom(1)
    /\ \E o \in SellOrders \cup FaultSellOrders, date \in Dates, reason \in Reasons :
         Sell(o.ticker, o.price, date, o.shares, reason)

NextFaults ==
    \/ FaultsBuyStep
    \/ FaultsSellStep
    \/ UpdatePricesStep

SpecFaults == Init /\ [][NextFaults]_vars

(* ------------- the same operations on a scaled portfolio --------------- *)
\* self.exposure
exposure(c, ps) ==
    IF total_value(c, ps) > 0
    THEN Frac(positions_value(ps) * 100, total_value(c, ps))
    ELSE Frac(0, 1)

\* summary(); capital is initial_capital in ticks, which is positive
summary(capital, c, ps, trs) ==
    [initial_capital  |-> capital,
     current_value    |-> total_value(c, ps),
     cash             |-> c,
     positions_value  |-> positions_value(ps),
     num_positions    |-> num_positions(ps),
     total_return_pct |-> Frac((total_value(c, ps) - capital) * 100, capital),
     total_return_brl |-> total_value(c, ps) - capital,
     exposure_pct     |-> exposure(c, ps),
     num_trades       |-> Len(trs)]

\* longest sequence of operations run on both portfolios
MaxProgram == 2

\* the factors by which capital and prices are multiplied
Scales == {2}

\* the operations of a run: buys, sells and marks at unscaled prices
ScaleOps ==
    { [op |-> "buy", order |-> o] : o \in BuyOrders }
    \cup { [op |-> "sell", order |-> o] : o \in SellOrders }
    \cup { [op |-> "update_prices", prices |-> m] : m \in PriceMaps }

\* a level multiplied by k
ScaledLevel(level, k) == IF level = None THEN None ELSE Some(level[1] * k)

\* one operation, with its prices and levels multiplied by k, on st
ApplyScaled(st, o, k) ==
    IF o.op = "buy"
    THEN LET r == buy(st, o.order.ticker, o.order.price * k, o.order.target_pct, 1,
                      ScaledLevel(o.order.stop_loss, k),
                      ScaledLevel(o.order.take_profit, k), "SIGNAL")
         IN  [cash |-> r.cash, positions |-> r.positions, trades |-> r.trades]
    ELSE IF o.op = "sell"
    THEN LET r == sell(st, o.order.ticker, o.order.price * k, 1, o.order.shares, "SIGNAL")
         IN  [cash |-> r.cash, positions |-> r.positions, trades |-> r.trades]
    ELSE [cash |-> st.cash,
          positions |-> update_prices(st.positions,
                            [t \in DOMAIN o.prices |-> o.prices[t] * k]),
          trades |-> st.trades]

\* the operations in order on a new Portfolio(capital * k)
RECURSIVE RunScaled(_, _, _)
RunScaled(capital, operations, k) ==
    IF operations = << >>
    THEN [cash |-> capital * k, positions |-> << >>, trades |-> << >>]
    ELSE ApplyScaled(RunScaled(capital, SubSeq(operations, 1, Len(operations) - 1), k),
                     operations[Len(operations)], k)

\* every state of the scaled run stays within MaxValue
RECURSIVE RunInRange(_, _, _)
RunInRange(capital, operations, k) ==
    /\ operations # << >>
       => RunInRange(capital, SubSeq(operations, 1, Len(operations) - 1), k)
    /\ InRange(RunScaled(capital, operations, k).cash,
               RunScaled(capital, operations, k).positions)

Programs == UNION { [1..n -> ScaleOps] : n \in 0..MaxProgram }

InitScaling ==
    /\ initial_capital \in { c * CashDen : c \in Capitals \ {0} }
    /\ cash = initial_capital
    /\ positions = << >>
    /\ trades = << >>
    /\ history = << >>
    /\ \E operations \in Programs, k \in Scales :
          /\ RunInRange(initial_capital, operations, k)
          /\ call = [op |-> "args", operations |-> operations, k |-> k]
    /\ ret = None

\* runs the operations on this portfolio and on its scaled twin, whose final
\* state and summary are left in ret
RunBoth ==
    /\ call.op = "args"
    /\ LET plain  == RunScaled(initial_capital, call.operations, 1)
           scaled == RunScaled(initial_capital, call.operations, call.k)
       IN  /\ cash' = plain.cash
           /\ positions' = plain.positions
           /\ trades' = plain.trades
           /\ ret' = Some([positions |-> scaled.positions,
                           trades    |-> scaled.trades,
                           summary   |-> summary(initial_capital * call.k, scaled.cash,
                                                 scaled.positions, scaled.trades)])
    /\ call' = [call EXCEPT !.op = "run"]
    /\ UNCHANGED <<initial_capital, history>>

NextScaling == RunBoth

SpecScaling == InitScaling /\ [][NextScaling]_vars

(* ------------------------- can_buy as a query -------------------------- *)
\* cash balances of the portfolios queried, in currency units
CanBuyCash == {0, 1, 30, 170, 200}

\* the portfolios queried hold nothing, or PETR4 bought at the lowest price
\* and marked at any price
CanBuyPositions ==
    {<< >>}
    \cup { << [new_position("PETR4", shares, 1, 1, None, None)
                 EXCEPT !.current_price = price] >> :
             shares \in {20, 60}, price \in Prices }

InitCanBuy ==
    /\ initial_capital = 200 * CashDen
    /\ cash \in { c * CashDen : c \in CanBuyCash }
    /\ positions \in CanBuyPositions
    /\ InRange(cash, positions)
    /\ trades = << >>
    /\ history = << >>
    /\ \E ticker \in Tickers, target_pct \in TargetPcts :
          call = [op |-> "args", ticker |-> ticker, target_pct |-> target_pct]
    /\ ret = None

CanBuy ==
    /\ call.op = "args"
    /\ ret' = Some(can_buy(cash, positions, call.ticker, call.target_pct))
    /\ call' = [call EXCEPT !.op = "can_buy"]
    /\ UNCHANGED <<initial_capital, cash, positions, trades, history>>

NextCanBuy == CanBuy

SpecCanBuy == InitCanBuy /\ [][NextCanBuy]_vars

(* ---------------- data/yfinance_utils: safe_div ------------------------ *)
\* largest operand explored
MaxOperand == 4

\* an operand is None or a number
Operands == { None } \cup { Some(n) : n \in -MaxOperand..MaxOperand }

\* variant: a zero divisor gives 0
safe_div_zero(a, b) ==
    IF a = None \/ b = None THEN None
    ELSE IF b[1] = 0 THEN Some(Frac(0, 1))
    ELSE IF b[1] > 0 THEN Some(Frac(a[1], b[1]))
    ELSE Some(Frac(-a[1], -b[1]))

\* safe_div(a, b): a / b, or None when an operand is None or b is 0
safe_div(a, b) ==
    IF a = None \/ b = None THEN None
    ELSE IF b[1] = 0 THEN None
    ELSE IF b[1] > 0 THEN Some(Frac(a[1], b[1]))
    ELSE Some(Frac(-a[1], -b[1]))

InitUtils ==
    /\ initial_capital = 0
    /\ cash = 0
    /\ positions = << >>
    /\ trades = << >>
    /\ history = << >>
    /\ call \in { [op |-> "args", a |-> a, b |-> b] : a \in Operands, b \in Operands }
    /\ ret = None

SafeDiv ==
    /\ call.op = "args"
    /\ call' = [call EXCEPT !.op = "safe_div"]
    /\ ret' = safe_div(call.a, call.b)
    /\ UNCHANGED <<initial_capital, cash, positions, trades, history>>

NextUtils == SafeDiv

SpecUtils == InitUtils /\ [][NextUtils]_vars

(* ------------- longer history: several records, short ledger ---------- *)
MaxRecords == 2
MaxHistTrades == 1

HistRoom(n) == Len(trades) + n <= MaxHistTrades

HistBuyStep ==
    /\ HistRoom(1)
    /\ \E o \in BuyOrders, date \in Dates, reason \in Reasons :
         Buy(o.ticker, o.price, o.target_pct, date, o.stop_loss, o.take_profit, reason)

HistSellStep ==
    /\ HistRoom(1)
    /\ \E o \in SellOrders, date \in Dates, reason \in Reasons :
         Sell(o.ticker, o.price, date, o.shares, reason)

HistCheckStopsStep ==
    /\ HistRoom(Len(tickers_to_close(positions)))
    /\ \E date \in Dates : CheckStops(date)

HistApplySelicStep ==
    /\ HistRoom(1)
    /\ \E date \in Dates, rate \in Rates : ApplySelic(date, rate)

\* the dates record_state is called with: the caller is free to repeat a
\* date or to go back
RecordDates == {1, 2}

HistRecordStateStep ==
    /\ Len(history) < MaxRecords
    /\ \E date \in RecordDates : RecordState(date)

NextHistory ==
    \/ HistBuyStep
    \/ HistSellStep
    \/ HistCheckStopsStep
    \/ UpdatePricesStep
    \/ HistApplySelicStep
    \/ HistRecordStateStep

SpecHistory == Init /\ [][NextHistory]_vars

(* ------------- deeper ledger for check_stops: two positions ------------ *)
MaxStopTrades == 4

\* buys carrying stop and take levels, on both tickers
StopOrders ==
    { [ticker |-> "PETR4", price |-> 1, target_pct |-> 20 * PctDen,
       stop_loss |-> Some(1), take_profit |-> tp] : tp \in {None, Some(1)} }
    \cup
    { [ticker |-> "VALE3", price |-> p, target_pct |-> 20 * PctDen,
       stop_loss |-> sl, take_profit |-> Some(40)] :
          p \in Prices, sl \in {None, Some(1)} }
    \cup
    { [ticker |-> "VALE3", price |-> 1, target_pct |-> 20 * PctDen,
       stop_loss |-> None, take_profit |-> None] }

StopsRoom(n) == Len(trades) + n <= MaxStopTrades

StopsBuyStep ==
    /\ StopsRoom(1)
    /\ \E o \in StopOrders, date \in Dates, reason \in Reasons :
         Buy(o.ticker, o.price, o.target_pct, date, o.stop_loss, o.take_profit, reason)

StopsCheckStep ==
    /\ StopsRoom(Len(tickers_to_close(positions)))
    /\ \E date \in Dates : CheckStops(date)

NextStops ==
    \/ StopsBuyStep
    \/ StopsCheckStep
    \/ UpdatePricesStep

SpecStops == Init /\ [][NextStops]_vars

(* ------------------------------ properties ----------------------------- *)
IsPrefix(s, t) == Len(s) <= Len(t) /\ SubSeq(t, 1, Len(s)) = s

Bought == call.op = "buy" /\ ret # None
Sold == call.op = "sell" /\ ret # None

\* C1: after every buy, sell, check_stops and apply_selic_to_cash call with
\* price > 0, requested shares >= 0 and rate >= 0, cash >= 0.
C1_CashNonNegative == cash >= 0

\* a buy that spent (almost) all the cash: the affordable value was shrunk to
\* cash / (1 + commission_pct) and less than one currency unit is left
C1_Witness == Bought /\ cash < CashDen /\ initial_capital > 0

\* the sum over the held positions of shares x markPrice, in ticks
SumSharesTimesMark ==
    LET RECURSIVE upto(_)
        upto(k) == IF k = 0 THEN 0
                   ELSE upto(k - 1)
                        + positions[k].shares * positions[k].current_price * CommissionDen
    IN  upto(Len(positions))

\* C2: in every reachable state total_value is cash plus the sum over the
\* held positions of shares x markPrice, and every recorded history entry has
\* total_value = cash + positions_value.
C2_TotalValue ==
    /\ total_value(cash, positions) = cash + SumSharesTimesMark
    /\ \A i \in 1..Len(history) :
          history[i].total_value = history[i].cash + history[i].positions_value

C2_Witness ==
    /\ Len(positions) = 2
    /\ Len(history) = 1
    /\ history[1].num_positions = 2
    /\ history[1].positions_value > 0

\* C3: every Position in the positions map has shares > 0.
C3_NoEmptyPosition == \A i \in 1..Len(positions) : positions[i].shares > 0

\* a sell brought the position to zero shares and it is gone from the map
C3_Witness == Sold /\ ~HasPos(positions, call.ticker)

\* C4: the ledger before a call is a prefix of the ledger after it; a buy or
\* sell that returns a Trade appends exactly that Trade, and one that returns
\* None appends nothing.
C4_AppendOnly ==
    [][/\ IsPrefix(trades, trades')
       /\ call'.op \in {"buy", "sell"} =>
            /\ ret' # None => trades' = Append(trades, ret'[1])
            /\ ret' = None => trades' = trades]_vars

C4_Witness == Sold /\ Len(trades) >= 2 /\ trades[Len(trades)] = ret[1]

\* the total of the recorded total_cost over the trades of the given action
RECURSIVE LedgerCost(_, _)
LedgerCost(trs, action) ==
    IF trs = << >> THEN 0
    ELSE (IF Head(trs).action = action THEN Head(trs).total_cost ELSE 0)
         + LedgerCost(Tail(trs), action)

\* C5: cash = initial_capital - total cost of the BUY trades + net proceeds
\* of the SELL trades + interest of the INTEREST trades of the ledger (the
\* proceeds and the interest are recorded as a negative total_cost).
C5_LedgerAccountsForCash ==
    cash = initial_capital
           - LedgerCost(trades, "BUY")
           + (0 - LedgerCost(trades, "SELL"))
           + (0 - LedgerCost(trades, "INTEREST"))

C5_Witness ==
    /\ cash # initial_capital
    /\ \E i \in 1..Len(trades) : trades[i].action = "BUY"
    /\ \E i \in 1..Len(trades) : trades[i].action \in {"SELL", "INTEREST"}
                                 /\ trades[i].total_cost < 0

\* the value canBuy's algorithm reaches, target_pct/100 x total_value with
\* the target clamped, in 1/ValueDen ticks, for an instrument not held
ExactTarget(c, ps, target_pct) ==
    (IF target_pct > MaxPositionPct * PctDen THEN MaxPositionPct * PctDen ELSE target_pct)
    * (c + positions_value(ps))

C7_RejectedBuyChangesNothing ==
    [][(call'.op = "buy" /\ ret' = None)
       => UNCHANGED <<cash, positions, trades, history>>]_vars

\* canBuy allowed the buy, the computed share count was 0, None was returned
C7_Witness ==
    /\ call.op = "buy" /\ ret = None
    /\ can_buy(cash, positions, call.ticker, call.target_pct).ok
    /\ Len(positions) > 0

\* the target percentages below min_position_size * 100
BelowMinPcts == 0..(MinPositionPct * PctDen - 1)

\* C8: can_buy with a target below min_position_size rejects in every
\* reachable state, for held and not held instruments, and a buy with such a
\* target returns None.
C8_BelowMinimumRejected ==
    /\ \A ticker \in Tickers, target_pct \in BelowMinPcts :
          ~can_buy(cash, positions, ticker, target_pct).ok
    /\ (call.op = "buy" /\ call.target_pct \in BelowMinPcts) => ret = None

\* a buy below the floor was refused although all the capital was in cash and
\* the target value was worth at least one share
C8_Witness ==
    /\ call.op = "buy" /\ call.target_pct \in BelowMinPcts /\ ret = None
    /\ cash = initial_capital
    /\ call.target_pct * cash >= ValueDen * CommissionDen * call.price
    /\ call.target_pct > 0

\* C9 as stated: immediately after any successful buy the market value of
\* the bought Position is at most max_position_size x total_value.
C9_PositionWithinMaxAfterBuy ==
    Bought =>
       market_value(PosOf(positions, call.ticker)) * 100
          <= MaxPositionPct * total_value(cash, positions)

\* C9 amended: the market value the Position had before the buy plus the
\* value bought (shares x execution price) is at most max_position_size x the
\* total_value before the buy, whatever target was requested.
C9_BoughtWithinMaxOfPriorValue ==
    [][(call'.op = "buy" /\ ret' # None)
       => LET before == IF HasPos(positions, call'.ticker)
                        THEN market_value(PosOf(positions, call'.ticker)) ELSE 0
              bought == ret'[1].shares * call'.price * CommissionDen
          IN  (before + bought) * 100
                 <= MaxPositionPct * total_value(cash, positions)]_vars

\* a top-up that asked for more than the maximum went through
C9_Witness ==
    /\ Bought
    /\ call.target_pct > MaxPositionPct * PctDen
    /\ PosOf(positions, call.ticker).shares > ret[1].shares

\* C10: a sell that asks for more shares than are held sells exactly the held
\* shares, removes the Position and credits cash for the held shares only.
C10_OversellClamped ==
    [][(/\ call'.op = "sell" /\ call'.shares # None
        /\ HasPos(positions, call'.ticker)
        /\ call'.shares[1] > PosOf(positions, call'.ticker).shares)
       => LET held == PosOf(positions, call'.ticker).shares
          IN  /\ ret' # None
              /\ ret'[1].shares = held
              /\ ret'[1].action = "SELL"
              /\ ~HasPos(positions', call'.ticker)
              /\ cash' = cash + held * call'.price * (CommissionDen - CommissionNum)]_vars

C10_Witness ==
    /\ Sold /\ call.shares # None
    /\ call.shares[1] > ret[1].shares
    /\ ~HasPos(positions, call.ticker)

\* C11: a sell for an instrument with no open Position, and a sell whose
\* clamped share count is 0, returns None and leaves cash, positions, ledger
\* and history unchanged.
C11_NothingToSell ==
    [][(/\ call'.op = "sell"
        /\ \/ ~HasPos(positions, call'.ticker)
           \/ call'.shares = Some(0))
       => /\ ret' = None
          /\ UNCHANGED <<cash, positions, trades, history>>]_vars

\* zero shares were asked of a held position, and nothing happened
C11_Witness ==
    /\ call.op = "sell" /\ call.shares = Some(0) /\ ret = None
    /\ HasPos(positions, call.ticker)

\* C12: a buy that opens a position followed at once by a sell of the whole
\* position at the same price leaves no Position and leaves cash at the cash
\* before the buy minus the commission of both legs, which is not the cash
\* before the buy.
C12_RoundTrip ==
    [][(/\ call.op = "buy" /\ ret # None
        /\ PosOf(positions, call.ticker).shares = ret[1].shares
        /\ call'.op = "sell" /\ call'.ticker = call.ticker
        /\ call'.price = call.price
        /\ \/ call'.shares = None
           \/ call'.shares[1] >= ret[1].shares)
       => LET before == cash + ret[1].shares * call.price * OnePlusComm
              leg    == ret[1].shares * call.price * CommissionNum
          IN  /\ ~HasPos(positions', call.ticker)
              /\ ret[1].commission = leg
              /\ ret'[1].commission = leg
              /\ cash' = before - 2 * leg
              /\ cash' # before]_vars

\* the ledger ends with a BUY and the SELL of the same shares at the same price
C12_Witness ==
    /\ Sold /\ Len(trades) >= 2
    /\ ~HasPos(positions, call.ticker)
    /\ LET b == trades[Len(trades) - 1]
       IN  /\ b.action = "BUY" /\ b.ticker = ret[1].ticker
           /\ b.price = ret[1].price /\ b.shares = ret[1].shares
           /\ cash = initial_capital - b.commission - ret[1].commission

\* C13: marking twice with the same price map gives the state that marking
\* once gives, from every reachable state and for every price map.
C13_MarkIdempotent ==
    \A prices \in PriceMaps :
        update_prices(update_prices(positions, prices), prices)
            = update_prices(positions, prices)

\* a mark just moved the price of a held position away from its average cost
C13_Witness ==
    /\ call.op = "update_prices"
    /\ \E i \in 1..Len(positions) :
          /\ positions[i].ticker \in DOMAIN call.prices
          /\ positions[i].current_price = call.prices[positions[i].ticker]
          /\ positions[i].avg_price # Frac(positions[i].current_price, 1)

\* C16: apply_selic_to_cash with cash > 0 adds cash x rate to cash and appends
\* one INTEREST trade (ticker SELIC, 0 shares, price 0, reason SELIC_YIELD,
\* total_cost = -interest); with cash <= 0 it changes neither cash nor the
\* ledger; positions are unchanged in both cases.
C16_Interest ==
    [][call'.op = "apply_selic_to_cash"
       => /\ positions' = positions
          /\ history' = history
          /\ IF cash > 0
             THEN /\ cash' = cash + cash * call'.rate
                  /\ trades' = Append(trades,
                        [date |-> call'.date, ticker |-> "SELIC",
                         action |-> "INTEREST", shares |-> 0, price |-> 0,
                         commission |-> 0, total_cost |-> 0 - cash * call'.rate,
                         reason |-> "SELIC_YIELD"])
             ELSE /\ cash' = cash
                  /\ trades' = trades]_vars

\* interest was accrued at a non-zero rate while a position was held
C16_Witness ==
    /\ call.op = "apply_selic_to_cash" /\ call.rate > 0
    /\ Len(positions) > 0 /\ Len(trades) >= 2
    /\ trades[Len(trades)].action = "INTEREST"
    /\ trades[Len(trades)].total_cost < 0

\* the stop level of a position is set and its mark is at or below it
StopHit(pos) == pos.stop_loss # None /\ pos.current_price <= pos.stop_loss[1]

\* the take level of a position is set and its mark is at or above it
TakeHit(pos) == pos.take_profit # None /\ pos.current_price >= pos.take_profit[1]

\* C14: check_stops sells every held Position whose stop is set with
\* mark <= stop or whose take is set with mark >= take: one SELL of the full
\* size at the mark price with reason STOP_LOSS or TAKE_PROFIT for each, none
\* for any other Position, and it returns exactly those trades, which are the
\* ones it appended to the ledger.
C14_StopsCloseTriggered ==
    [][call'.op = "check_stops"
       => LET hits == { i \in 1..Len(positions) :
                           StopHit(positions[i]) \/ TakeHit(positions[i]) }
          IN  /\ Len(ret') = Cardinality(hits)
              /\ trades' = trades \o ret'
              /\ \A i \in hits : \E k \in 1..Len(ret') :
                    /\ ret'[k].ticker = positions[i].ticker
                    /\ ret'[k].action = "SELL"
                    /\ ret'[k].date = call'.date
                    /\ ret'[k].shares = positions[i].shares
                    /\ ret'[k].price = positions[i].current_price
                    /\ ret'[k].reason \in {"STOP_LOSS", "TAKE_PROFIT"}
                    /\ ~TakeHit(positions[i]) => ret'[k].reason = "STOP_LOSS"
                    /\ ~StopHit(positions[i]) => ret'[k].reason = "TAKE_PROFIT"
                    /\ ~HasPos(positions', positions[i].ticker)
              /\ \A i \in (1..Len(positions)) \ hits :
                    /\ HasPos(positions', positions[i].ticker)
                    /\ PosOf(positions', positions[i].ticker) = positions[i]]_vars

\* one call closed a position at its stop and another at its take
C14_Witness ==
    /\ call.op = "check_stops" /\ Len(ret) = 2
    /\ \E j, k \in 1..2 :
          /\ ret[j].reason = "STOP_LOSS" /\ ret[k].reason = "TAKE_PROFIT"
          /\ ret[j].ticker # ret[k].ticker

\* one call closed one position at its take and kept the other, not triggered
C14_WitnessKept ==
    /\ call.op = "check_stops" /\ Len(ret) = 1 /\ Len(positions) = 1
    /\ ret[1].reason = "TAKE_PROFIT"

\* C15: a Position whose stop and take conditions both hold at the same mark
\* is closed by check_stops with a single SELL of reason STOP_LOSS and no
\* TAKE_PROFIT trade.
C15_StopBeforeTake ==
    [][call'.op = "check_stops"
       => \A i \in 1..Len(positions) :
             (StopHit(positions[i]) /\ TakeHit(positions[i]))
             => LET sold == { k \in 1..Len(ret') :
                                ret'[k].ticker = positions[i].ticker }
                IN  /\ Cardinality(sold) = 1
                    /\ \A k \in sold : /\ ret'[k].action = "SELL"
                                       /\ ret'[k].reason = "STOP_LOSS"]_vars

\* the call found a position with both conditions true and sold it at its stop
C15_Witness ==
    /\ call.op = "check_stops"
    /\ \E i \in 1..Len(call.positions) :
          /\ StopHit(call.positions[i]) /\ TakeHit(call.positions[i])
          /\ \E k \in 1..Len(ret) :
                /\ ret[k].ticker = call.positions[i].ticker
                /\ ret[k].reason = "STOP_LOSS"

\* C17: the first history record has a daily return of 0 and every later
\* record i has returns[i] = (total_value[i] / total_value[i-1] - 1) x 100,
\* a previous total value of 0 giving the return 0.
C17_DailyReturn ==
    \A i \in 1..Len(history) :
        LET r == history[i].returns
        IN  /\ r.den > 0
            /\ GCD(Abs(r.num), r.den) = 1
            /\ IF i = 1 THEN r.num = 0
               ELSE LET prev == history[i - 1].total_value
                        cur  == history[i].total_value
                    IN  IF prev > 0
                        THEN /\ prev % r.den = 0
                             /\ r.num * (prev \div r.den) = (cur - prev) * 100
                        ELSE r.num = 0 /\ cur = 0

\* a second record was taken after the total value moved
C17_Witness ==
    /\ Len(history) >= 2
    /\ history[2].returns.num # 0
    /\ history[1].returns.num = 0

\* the total values of the records of a history
ValuesOf(portfolio_history) ==
    [i \in 1..Len(portfolio_history) |-> portfolio_history[i].total_value]

\* the highest of tv[first..k]
PeakUpTo(tv, first, k) ==
    tv[CHOOSE i \in first..k : \A j \in first..k : tv[j] <= tv[i]]

\* the largest decline of tv from a peak at or after record first to a later
\* record, in percent of the peak (0 when tv never declines)
PeakDecline(tv, first) ==
    LET decline == [k \in first..Len(tv) |->
                       Frac((tv[k] - PeakUpTo(tv, first, k)) * 100,
                            PeakUpTo(tv, first, k))]
    IN  decline[CHOOSE k \in first..Len(tv) :
                   \A j \in first..Len(tv) : ~FracLess(decline[j], decline[k])]

\* calculate_metrics returned its scalars for a history of two records or more
Measured ==
    /\ call.op = "calculate_metrics"
    /\ Len(call.portfolio_history) >= 2

\* C18: the reported max drawdown is the most negative
\* (cumulative - runningMax) / runningMax of the cumulative product of
\* 1 + daily return over the records after the first, i.e. the largest
\* decline of the value from a peak among the records after the first, and
\* not the lowest daily return; for the returns 0, 1%, -2%, 3% it is -2%.
C18_MaxDrawdown ==
    Measured =>
        /\ ret[1].max_drawdown_pct = PeakDecline(ValuesOf(call.portfolio_history), 2)
        /\ ValuesOf(call.portfolio_history) = ScenarioC
           => ret[1].max_drawdown_pct = Frac(-2, 1)

\* the metrics of Scenario C were computed
C18_Witness ==
    /\ Measured
    /\ Len(call.portfolio_history) = 4
    /\ [i \in 1..4 |-> call.portfolio_history[i].returns]
          = << Frac(0, 1), Frac(1, 1), Frac(-2, 1), Frac(3, 1) >>
    /\ ret[1].max_drawdown_pct = Frac(-2, 1)

\* a drawdown over two falling days is deeper than the worst day
C18_WitnessCompound ==
    /\ Measured
    /\ FracLess(ret[1].max_drawdown_pct, ret[1].worst_day_pct)

\* C19: the reported max drawdown is the largest peak-to-trough decline of
\* total_value over the whole series as a fraction of the peak, the first
\* record's total_value counting as a candidate peak.
C19_DrawdownFromFirstRecord ==
    Measured =>
        ret[1].max_drawdown_pct = PeakDecline(ValuesOf(call.portfolio_history), 1)

\* C20: align_cdi_to_portfolio returns a series over the portfolio's dates
\* without missing value: the source rate on a date of the source, else the
\* rate of the most recent earlier portfolio date that has one, else the mean
\* of the source.
C20_AlignedComplete ==
    call.op = "align_cdi_to_portfolio" =>
        LET dates  == DatesOf(call.portfolio_history)
            src    == call.cdi_df
            known(i) == { j \in 1..i : dates[j] \in DOMAIN src }
            last(i)  == CHOOSE j \in known(i) : \A k \in known(i) : k <= j
        IN  /\ Len(ret[1]) = Len(dates)
            /\ \A i \in 1..Len(dates) :
                  /\ ret[1][i] # NaN
                  /\ IF known(i) # {}
                     THEN ret[1][i] = Frac(src[dates[last(i)]], 1)
                     ELSE ret[1][i] = Frac(SumOver(src, DOMAIN src),
                                           Cardinality(DOMAIN src))

\* what C20 states, for a source that has at least one rate
C20_AlignedCompleteNonEmpty ==
    call.cdi_df # << >> => C20_AlignedComplete

\* a leading gap got the mean and a later gap the previous rate
C20_WitnessFilled ==
    /\ call.op = "align_cdi_to_portfolio"
    /\ Len(ret[1]) = 3
    /\ DOMAIN call.cdi_df = {2}
    /\ ret[1][1] = ret[1][2] /\ ret[1][3] = ret[1][2] /\ ret[1][2] # NaN

\* an empty source left every date missing
C20_WitnessEmptySource ==
    /\ call.op = "align_cdi_to_portfolio"
    /\ call.cdi_df = << >>
    /\ Len(ret[1]) > 0
    /\ \A i \in 1..Len(ret[1]) : ret[1][i] = NaN


\* C21: align_cdi_to_portfolio either returns a series without missing value
\* or raises; it never returns a series that has a missing value (the
\* function has no raise: every call returns).
C21_CompleteOrFails ==
    call.op = "align_cdi_to_portfolio" =>
        \A i \in 1..Len(ret[1]) : ret[1][i] # NaN


\* the names of the scalars of a metrics report
MetricNames ==
    {"total_return_pct", "annualized_return_pct", "volatility_annual_pct",
     "sharpe_ratio", "max_drawdown_pct", "calmar_ratio", "win_rate_pct",
     "best_day_pct", "worst_day_pct", "cdi_total_return_pct",
     "outperformance_pct", "num_days", "num_years"}

\* C22: calculate_metrics returns the empty result for a history of fewer
\* than 2 records and the full set of named scalars for 2 records or more,
\* with or without a benchmark series.
C22_EmptyOrFullReport ==
    call.op = "calculate_metrics" =>
        IF Len(call.portfolio_history) < 2
        THEN DOMAIN ret[1] = {}
        ELSE /\ DOMAIN ret[1] = MetricNames
             /\ ret[1].num_days = Len(call.portfolio_history)

\* a history of exactly two records got the full report
C22_Witness ==
    /\ call.op = "calculate_metrics"
    /\ Len(call.portfolio_history) = 2
    /\ DOMAIN ret[1] = MetricNames

\* a history of one record got the empty result
C22_WitnessEmpty ==
    /\ call.op = "calculate_metrics"
    /\ Len(call.portfolio_history) = 1
    /\ ret = Some(EmptyMetrics)


\* C27: safe_div(a, b) returns a / b when both operands are present and b is
\* not zero, and returns None when b is zero or an operand is None.
C27_SafeDiv ==
    call.op = "safe_div" =>
        IF call.a = None \/ call.b = None THEN ret = None
        ELSE IF call.b[1] = 0 THEN ret = None
        ELSE /\ ret # None
             /\ ret[1].den > 0
             /\ ret[1].num * call.b[1] = call.a[1] * ret[1].den

\* a number was divided by zero and None came back
C27_Witness ==
    /\ call.op = "safe_div"
    /\ call.a # None /\ call.b = Some(0)
    /\ ret = None

\* the quotient of the unit test: 4 / 2 = 2
C27_WitnessQuotient ==
    /\ call.op = "safe_div"
    /\ call.a = Some(4) /\ call.b = Some(2)
    /\ ret = Some(Frac(2, 1))


\* the call is a buy or a sell with a negative price, or a sell of a negative
\* number of shares
CallerFault(c) ==
    \/ c.op = "buy" /\ c.price < 0
    \/ c.op = "sell" /\ c.price < 0
    \/ c.op = "sell" /\ c.shares # None /\ c.shares[1] < 0

\* C23: a buy or sell with a negative price and a sell with a negative share
\* count are refused (with an error): they return no trade and leave cash,
\* positions and the ledger unchanged.
C23_FaultsRefused ==
    [][CallerFault(call')
       => /\ ret' = None
          /\ UNCHANGED <<cash, positions, trades>>]_vars

\* a buy at a negative price was executed as a trade
C23_WitnessExecuted ==
    /\ call.op = "buy" /\ call.price < 0 /\ ret # None
    /\ trades # << >> /\ trades[Len(trades)].shares < 0


\* the share counts of a sequence of positions
SharesOf(ps) == [i \in 1..Len(ps) |-> [ticker |-> ps[i].ticker, shares |-> ps[i].shares]]

\* C24: a sequence of operations run on a portfolio whose capital, prices and
\* levels are multiplied by k gives the same positions with the same share
\* counts, the same number of trades with the same share counts, and the same
\* total_return_pct and exposure_pct as the unscaled run.
C24_ScalingInvariance ==
    call.op = "run" =>
        /\ SharesOf(ret[1].positions) = SharesOf(positions)
        /\ Len(ret[1].trades) = Len(trades)
        /\ \A i \in 1..Len(trades) : ret[1].trades[i].shares = trades[i].shares
        /\ ret[1].summary.total_return_pct
              = summary(initial_capital, cash, positions, trades).total_return_pct
        /\ ret[1].summary.exposure_pct
              = summary(initial_capital, cash, positions, trades).exposure_pct

\* a run of one buy whose scaled twin bought the same shares
C24_WitnessSame ==
    /\ call.op = "run" /\ Len(trades) = 1
    /\ SharesOf(ret[1].positions) = SharesOf(positions)

\* a run of two buys whose scaled twin bought one share more
C24_WitnessDiffers ==
    /\ call.op = "run" /\ Len(trades) = 2 /\ Len(ret[1].trades) = 2
    /\ ret[1].trades[2].shares = trades[2].shares + 1


\* ticker is held before and after the step, at different mark prices
MarkChanged(ticker) ==
    /\ HasPos(positions, ticker) /\ HasPos(positions', ticker)
    /\ PosOf(positions', ticker).current_price # PosOf(positions, ticker).current_price

\* C25 as stated: the mark price of a position that exists before and after a
\* call is changed only by update_prices; buy, sell, check_stops,
\* apply_selic_to_cash and record_state never change it.
C25_MarkOnlyByUpdatePrices ==
    [][\A ticker \in Tickers : MarkChanged(ticker) => call'.op = "update_prices"]_vars

\* C25 amended: the mark price of a position that exists before and after a
\* call is changed only by update_prices and by a successful buy of that
\* instrument, which sets it to the execution price; sell, check_stops,
\* apply_selic_to_cash and record_state never change it.
C25_MarkByUpdatePricesOrBuy ==
    [][\A ticker \in Tickers :
          MarkChanged(ticker) =>
             \/ call'.op = "update_prices"
             \/ /\ call'.op = "buy" /\ call'.ticker = ticker /\ ret' # None
                /\ PosOf(positions', ticker).current_price = call'.price]_vars

\* a top-up of PETR4 executed at another price than the first buy, after
\* which the position is marked at the price of the top-up
C25_Witness ==
    /\ call.op = "buy" /\ ret # None /\ Len(trades) = 2
    /\ trades[1].action = "BUY" /\ trades[1].ticker = call.ticker
    /\ trades[1].price # call.price
    /\ HasPos(positions, call.ticker)
    /\ PosOf(positions, call.ticker).current_price = call.price
    /\ PosOf(positions, call.ticker).shares > trades[2].shares


\* C26 as stated: every trade of the ledger records a negative signed cash
\* amount when it took cash out (BUY) and a positive one when it brought cash
\* in (SELL, where it is +net proceeds).
C26_OutflowNegative ==
    \A i \in 1..Len(trades) :
        /\ trades[i].action = "BUY" => trades[i].total_cost < 0
        /\ trades[i].action = "SELL" =>
              /\ trades[i].total_cost > 0
              /\ trades[i].total_cost
                   = trades[i].shares * trades[i].price * CommissionDen
                     - trades[i].commission

\* C26 amended: every trade of the ledger records a positive signed cash
\* amount (its total cost) when it took cash out (BUY) and a negative one when
\* it brought cash in (SELL, where it is -net proceeds).
C26_OutflowPositive ==
    \A i \in 1..Len(trades) :
        /\ trades[i].action = "BUY" => trades[i].total_cost > 0
        /\ trades[i].action = "SELL" =>
              /\ trades[i].total_cost < 0
              /\ trades[i].total_cost
                   = -(trades[i].shares * trades[i].price * CommissionDen
                       - trades[i].commission)

\* a ledger of a BUY followed by a SELL that paid commission
C26_Witness ==
    /\ Len(trades) = 2
    /\ trades[1].action = "BUY" /\ trades[2].action = "SELL"
    /\ trades[2].commission > 0
    /\ cash # initial_capital


\* the value requested of can_buy in the current state, in 1/ValueDen ticks:
\* the clamped target_pct/100 x total_value, less the market value of the
\* position when the instrument is held
Requested(ticker, target_pct) ==
    ExactTarget(cash, positions, target_pct)
    - (IF HasPos(positions, ticker)
       THEN ValueDen * market_value(PosOf(positions, ticker)) ELSE 0)

\* the answer of can_buy grants at most the requested value and at most
\* cash / (1 + commission_pct), and rejects a shrunk amount below the floor
GrantBounded ==
    /\ ret[1].ok =>
          /\ ret[1].value * ValueDen * CashDen <= Requested(call.ticker, call.target_pct)
          /\ ret[1].value * OnePlusComm * PriceDen <= cash
    /\ (/\ ~below_minimum(call.target_pct)
        /\ cash_insufficient(Requested(call.ticker, call.target_pct), cash)
        /\ shrunk_too_small(cash, total_value(cash, positions))) => ~ret[1].ok

\* the cash cannot cover the requested value plus commission, and can_buy
\* has granted a shrunk amount
Shrunk ==
    /\ call.op = "can_buy" /\ ret[1].ok
    /\ cash_insufficient(Requested(call.ticker, call.target_pct), cash)

C28_WitnessHeld ==
    /\ call.op = "can_buy" /\ HasPos(positions, call.ticker)
    /\ ret[1].ok /\ ret[1].value > 0 /\ ~Shrunk

\* an order rejected because the shrunk amount is below the floor
C28_WitnessRejected ==
    /\ call.op = "can_buy" /\ ~ret[1].ok /\ ret[1].msg = "insufficient_cash"
    /\ cash > 0


\* the step is a buy of an instrument that is held, with a target at or above
\* the sizing floor
TopUpCall ==
    /\ call'.op = "buy" /\ HasPos(positions, call'.ticker)
    /\ call'.target_pct >= MinPositionPct * PctDen

\* the increment asked by the buy of the step is below min_position_size x
\* total_value
IncrementBelowFloor ==
    Requested(call'.ticker, call'.target_pct)
       < total_value(cash, positions) * MinPositionPct * PctDen

\* C29: a buy of an instrument that is already held is sized on the increment
\* only (target value minus the current market value of the position): it is
\* rejected when the increment is below min_position_size x total_value,
\* also when the position is at or above its target, and a rejected top-up
\* leaves the position, the cash and the ledger unchanged; when the increment
\* is granted in full the shares bought are floor(int(increment) / price).
C29_TopUpSizedByIncrement ==
    [][TopUpCall =>
          /\ IncrementBelowFloor =>
                /\ ret' = None
                /\ positions' = positions /\ cash' = cash /\ trades' = trades
          /\ (/\ ~IncrementBelowFloor /\ ret' # None
              /\ ~cash_insufficient(Requested(call'.ticker, call'.target_pct), cash))
             => ret'[1].shares
                  = IntTrunc(IntTrunc(Requested(call'.ticker, call'.target_pct),
                                      ValueDen * CashDen) * PriceDen,
                             call'.price)]_vars

\* a top-up rejected although its target is above the floor, the position
\* being at or above the target
C29_Witness ==
    /\ call.op = "buy" /\ ret = None
    /\ HasPos(positions, call.ticker)
    /\ call.target_pct >= MinPositionPct * PctDen
    /\ Requested(call.ticker, call.target_pct) <= 0

\* a top-up that was executed: the second BUY of the held instrument
C29_WitnessExecuted ==
    /\ call.op = "buy" /\ ret # None /\ Len(trades) = 2
    /\ trades[1].action = "BUY" /\ trades[1].ticker = call.ticker
    /\ PosOf(positions, call.ticker).shares = trades[1].shares + trades[2].shares
    /\ trades[2].shares # trades[1].shares


\* the step is a successful buy
BuyExecuted == call'.op = "buy" /\ ret' # None

\* C30: a successful buy that adds the shares of its trade at its price to a
\* position of oldShares at oldAvg leaves shares = oldShares + newShares and
\* avg_price = (oldShares x oldAvg + newShares x price) / (oldShares +
\* newShares); a first buy creates the position with the shares of the trade
\* and avg_price = current_price = execution price.
C30_VolumeWeightedAverage ==
    [][BuyExecuted =>
          LET old == PosOf(positions, call'.ticker)
              new == PosOf(positions', call'.ticker)
              tr  == ret'[1]
          IN  /\ HasPos(positions', call'.ticker)
              /\ tr.price = call'.price
              /\ IF HasPos(positions, call'.ticker)
                 THEN /\ new.shares = old.shares + tr.shares
                      /\ new.avg_price.num * old.avg_price.den * new.shares
                           = new.avg_price.den
                             * (old.shares * old.avg_price.num
                                + tr.shares * tr.price * old.avg_price.den)
                 ELSE /\ new.shares = tr.shares
                      /\ new.avg_price.num = call'.price * new.avg_price.den
                      /\ new.current_price = call'.price]_vars

\* a position built by two buys at different prices, whose average price lies
\* strictly between them
C30_Witness ==
    /\ call.op = "buy" /\ ret # None /\ Len(trades) = 2
    /\ trades[1].action = "BUY" /\ trades[1].ticker = call.ticker
    /\ trades[2].price # trades[1].price
    /\ LET pos == PosOf(positions, call.ticker)
       IN  /\ pos.shares = trades[1].shares + trades[2].shares
           /\ pos.avg_price.num # trades[1].price * pos.avg_price.den
           /\ pos.avg_price.num # trades[2].price * pos.avg_price.den

\* a first buy: one trade, the position marked at its price
C30_WitnessFirst ==
    /\ call.op = "buy" /\ ret # None /\ Len(trades) = 1
    /\ PosOf(positions, call.ticker).current_price = call.price
    /\ PosOf(positions, call.ticker).shares = trades[1].shares


\* the step is a successful buy of an instrument that was held
TopUpExecuted == BuyExecuted /\ HasPos(positions, call'.ticker)

\* C31: a buy that tops up a position changes its stop_loss (take_profit)
\* only when a level is supplied on the call, to that level; when none is
\* supplied the position keeps the level it had before the buy.
C31_LevelsOverwrittenOnlyIfSupplied ==
    [][TopUpExecuted =>
          LET old == PosOf(positions, call'.ticker)
              new == PosOf(positions', call'.ticker)
          IN  /\ new.stop_loss # old.stop_loss =>
                    call'.stop_loss # None /\ new.stop_loss = call'.stop_loss
              /\ call'.stop_loss = None => new.stop_loss = old.stop_loss
              /\ new.take_profit # old.take_profit =>
                    call'.take_profit # None /\ new.take_profit = call'.take_profit
              /\ call'.take_profit = None => new.take_profit = old.take_profit]_vars

\* a top-up without levels of a position that keeps the take level of its
\* first buy
C31_Witness ==
    /\ call.op = "buy" /\ ret # None
    /\ call.stop_loss = None /\ call.take_profit = None
    /\ Len(trades) = 2
    /\ trades[1].action = "BUY" /\ trades[1].ticker = call.ticker
    /\ PosOf(positions, call.ticker).shares = trades[1].shares + trades[2].shares
    /\ PosOf(positions, call.ticker).take_profit # None

\* a top-up that supplies a stop to a position bought without one, and no
\* take: the stop is set and the take of the first buy is kept
C31_WitnessOverwritten ==
    /\ call.op = "buy" /\ ret # None
    /\ call.stop_loss # None
    /\ Len(trades) = 2
    /\ trades[1].action = "BUY" /\ trades[1].ticker = call.ticker
    /\ PosOf(positions, call.ticker).shares = trades[1].shares + trades[2].shares
    /\ PosOf(positions, call.ticker).stop_loss = call.stop_loss
    /\ PosOf(positions, call.ticker).entry_date = trades[1].date


\* the step is a successful sell
SellExecuted == call'.op = "sell" /\ ret' # None

\* the shares a sell of the step may sell: the shares asked, or all when
\* none are asked, clamped to the shares held
ClampedShares ==
    LET held == PosOf(positions, call'.ticker).shares
    IN  IF call'.shares = None THEN held
        ELSE IF call'.shares[1] < held THEN call'.shares[1] ELSE held

\* C32: a successful sell of s shares (after clamping) at price p credits
\* cash with exactly s x p - s x p x commission_pct, records that commission
\* in the trade and reduces the shares of the position by exactly s; a
\* partial sell keeps the position with its avg_price, current_price and
\* stop/take levels unchanged.
C32_SellCreditsNetProceeds ==
    [][SellExecuted =>
          LET tr  == ret'[1]
              old == PosOf(positions, call'.ticker)
          IN  /\ HasPos(positions, call'.ticker)
              /\ tr.shares = ClampedShares /\ tr.price = call'.price
              /\ cash' - cash = tr.shares * tr.price * CommissionDen
                                - tr.shares * tr.price * CommissionNum
              /\ tr.commission = tr.shares * tr.price * CommissionNum
              /\ IF tr.shares < old.shares
                 THEN /\ HasPos(positions', call'.ticker)
                      /\ PosOf(positions', call'.ticker)
                           = [old EXCEPT !.shares = old.shares - tr.shares]
                 ELSE ~HasPos(positions', call'.ticker)]_vars

\* a partial sell: one share sold at another price than the mark, the
\* position kept with its mark
C32_Witness ==
    /\ call.op = "sell" /\ ret # None
    /\ HasPos(positions, call.ticker)
    /\ ret[1].shares = 1 /\ ret[1].commission > 0
    /\ PosOf(positions, call.ticker).current_price # call.price
    /\ cash > initial_capital - trades[1].total_cost

\* a sell that was clamped to the shares held and removed the position
C32_WitnessClamped ==
    /\ call.op = "sell" /\ ret # None
    /\ call.shares # None /\ call.shares[1] > ret[1].shares
    /\ ~HasPos(positions, call.ticker)


\* C33: update_prices changes only the current_price of the held instruments
\* that appear in the price map, to the price of the map: held instruments
\* absent from the map keep their mark, instruments of the map that are not
\* held create no position, and shares, avg_price, levels, cash, the ledger
\* and the history are unchanged.
C33_MarkFrame ==
    [][call'.op = "update_prices" =>
          /\ Len(positions') = Len(positions)
          /\ \A i \in 1..Len(positions) :
                positions'[i] =
                   [positions[i] EXCEPT !.current_price =
                       IF positions[i].ticker \in DOMAIN call'.prices
                       THEN call'.prices[positions[i].ticker] ELSE @]
          /\ cash' = cash /\ trades' = trades /\ history' = history
          /\ initial_capital' = initial_capital]_vars

\* a mark of one of two held instruments: the one in the map is at the price
\* of the map, the other one is still at the price it was bought at
C33_Witness ==
    /\ call.op = "update_prices" /\ Len(positions) = 2
    /\ \E i, j \in 1..2 :
          /\ positions[i].ticker \in DOMAIN call.prices
          /\ positions[i].current_price = call.prices[positions[i].ticker]
          /\ positions[i].avg_price # Frac(positions[i].current_price, 1)
          /\ positions[j].ticker \notin DOMAIN call.prices
          /\ positions[j].avg_price = Frac(positions[j].current_price, 1)

\* a mark whose map names an instrument that is not held
C33_WitnessNotHeld ==
    /\ call.op = "update_prices" /\ Len(positions) = 1
    /\ \E ticker \in DOMAIN call.prices : ~HasPos(positions, ticker)


\* a position triggers neither its stop nor its take
Quiet(pos) == ~StopHit(pos) /\ ~TakeHit(pos)

\* C34: check_stops closes every triggering position in the same call, also
\* when several are held: right after it returns no held position has its
\* mark at or below its stop or at or above its take, and the positions left
\* are exactly the non-triggering ones, unchanged and in their order.
C34_AllTriggersClosed ==
    [][call'.op = "check_stops" =>
          /\ \A i \in 1..Len(positions') : Quiet(positions'[i])
          /\ positions' = SelectSeq(positions, Quiet)]_vars

\* a call that found two triggering positions and closed both
C34_Witness ==
    /\ call.op = "check_stops"
    /\ Len(call.positions) = 2 /\ Len(ret) = 2
    /\ ret[1].ticker # ret[2].ticker
    /\ positions = << >>

\* a call that found two positions, closed the triggering one and left the
\* other as it was
C34_WitnessKept ==
    /\ call.op = "check_stops"
    /\ Len(call.positions) = 2 /\ Len(ret) = 1 /\ Len(positions) = 1
    /\ \E i \in 1..2 : call.positions[i] = positions[1]


\* the dates of a history are strictly increasing
StrictlyDated(h) == \A i, j \in 1..Len(h) : i < j => h[i].date < h[j].date

\* the step appends to the history the one record of the state it found when
\* it is a record_state, and leaves the history alone otherwise
AppendsOneRecord ==
    IF call'.op = "record_state"
    THEN history' = Append(history,
                       [date            |-> call'.date,
                        total_value     |-> total_value(cash, positions),
                        cash            |-> cash,
                        positions_value |-> positions_value(positions),
                        num_positions   |-> Len(positions),
                        returns         |-> daily_return(history,
                                               total_value(cash, positions))])
    ELSE history' = history

\* C35 as stated: each record_state call appends exactly one record (date,
\* total_value, cash, positions_value, num_positions, returns) of the state
\* at the call, earlier records are never changed, and the dates of the
\* series are strictly increasing, one record per period.
C35_OneRecordPerPeriod ==
    [][AppendsOneRecord /\ StrictlyDated(history')]_vars

\* C35 amended: each record_state call appends exactly one record of the
\* state at the call under the date it is given, earlier records are never
\* changed, and the dates of the series stay strictly increasing exactly
\* when the date of the call is later than the last recorded date.
C35_OneRecordPerCall ==
    [][/\ AppendsOneRecord
       /\ call'.op = "record_state" =>
             (StrictlyDated(history') <=>
                 /\ StrictlyDated(history)
                 /\ history # << >> => history[Len(history)].date < call'.date)]_vars

\* two records of different states under increasing dates
C35_Witness ==
    /\ call.op = "record_state" /\ Len(history) = 2
    /\ history[1].date < history[2].date
    /\ history[1].total_value # history[2].total_value
    /\ history[1].num_positions # history[2].num_positions

\* two records under the same date
C35_WitnessRepeated ==
    /\ call.op = "record_state" /\ Len(history) = 2
    /\ history[1].date = history[2].date


\* the step is a buy or a sell that traded nothing
Refused == call'.op \in {"buy", "sell"} /\ trades' = trades

\* C36: a buy or a sell refused for a business reason (insufficient cash,
\* sizing below the minimum, no position to sell, zero shares) returns an
\* explicit no-trade result that carries a reason, and does not raise.
C36_RefusalCarriesReason ==
    [][Refused => ret' # None /\ "reason" \in DOMAIN ret'[1]]_vars

\* a buy refused by can_buy with a message, of which the caller got None
C36_WitnessDropped ==
    /\ call.op = "buy" /\ ret = None
    /\ ~can_buy(cash, positions, call.ticker, call.target_pct).ok
    /\ can_buy(cash, positions, call.ticker, call.target_pct).msg = "below_min"


\* the daily periods the portfolio total return of the call covers: the
\* records after the first
Periods == Len(call.portfolio_history) - 1

\* C37: the benchmark total return is compounded over exactly the periods
\* the portfolio total return covers, the number of records minus one, both
\* when an aligned benchmark series is supplied and when the fixed annual
\* rate is the fallback; outperformance is the portfolio total return minus
\* that benchmark total return.
C37_SameWindow ==
    (call.op = "calculate_metrics" /\ ret[1] # EmptyMetrics) =>
        /\ IF call.cdi_series # None
           THEN /\ ret[1].cdi_total_return_pct.compounded = Tail(call.cdi_series[1])
                /\ Len(ret[1].cdi_total_return_pct.compounded) = Periods
           ELSE ret[1].cdi_total_return_pct.years = Frac(Periods, 252)
        /\ ret[1].outperformance_pct
             = [total_return |-> ret[1].total_return_pct,
                minus |-> ret[1].cdi_total_return_pct]

\* a report with a supplied benchmark series, compounded over the periods
C37_WitnessSeries ==
    /\ call.op = "calculate_metrics" /\ ret[1] # EmptyMetrics
    /\ call.cdi_series # None
    /\ Len(ret[1].cdi_total_return_pct.compounded) = Periods

\* a report without a benchmark series, whose fallback covers one day more
\* than the periods
C37_WitnessFallback ==
    /\ call.op = "calculate_metrics" /\ ret[1] # EmptyMetrics
    /\ call.cdi_series = None
    /\ ret[1].cdi_total_return_pct.years = Frac(Periods + 1, 252)


\* the excess return of period i of the call (record i + 1): the return less
\* the benchmark rate of that record, or the return itself when the constant
\* daily_rf is subtracted from every period
ExcessOfPeriod(i) ==
    LET r == FracDiv(call.portfolio_history[i + 1].returns, Frac(100, 1))
    IN  IF call.cdi_series = None THEN r
        ELSE FracSub(r, call.cdi_series[1][i + 1])

\* the excess returns of the call are two or more equal numbers, so that
\* their standard deviation is 0
ZeroDeviation ==
    /\ Periods >= 2
    /\ call.cdi_series # None =>
          \A i \in 1..Len(call.cdi_series[1]) : call.cdi_series[1][i] # NaN
    /\ \A i, j \in 1..Periods : ExcessOfPeriod(i) = ExcessOfPeriod(j)

\* C38: the ratio guards return 0 instead of dividing by zero: calmar is
\* abs(annualized return / max drawdown) when the max drawdown is not 0 and
\* 0 when it is 0, and sharpe is 0 when the standard deviation of the excess
\* returns is 0.
C38_RatioGuards ==
    (call.op = "calculate_metrics" /\ ret[1] # EmptyMetrics) =>
        /\ ret[1].calmar_ratio =
              IF ret[1].max_drawdown_pct = Frac(0, 1) THEN Frac(0, 1)
              ELSE [annualized |-> ret[1].annualized_return_pct,
                    max_drawdown |-> ret[1].max_drawdown_pct]
        /\ ZeroDeviation => ret[1].sharpe_ratio = Frac(0, 1)

\* a report of equal non-zero returns without drawdown: both guards answer 0
C38_Witness ==
    /\ call.op = "calculate_metrics" /\ ret[1] # EmptyMetrics
    /\ ZeroDeviation /\ ExcessOfPeriod(1) # Frac(0, 1)
    /\ ret[1].sharpe_ratio = Frac(0, 1)
    /\ ret[1].calmar_ratio = Frac(0, 1)

\* a report with a drawdown and unequal excess returns: both ratios are taken
C38_WitnessRatios ==
    /\ call.op = "calculate_metrics" /\ ret[1] # EmptyMetrics
    /\ ret[1].max_drawdown_pct # Frac(0, 1)
    /\ ret[1].calmar_ratio # Frac(0, 1)
    /\ ret[1].sharpe_ratio # Frac(0, 1)


\* the records after the first whose stored return is strictly positive
WinningRecords ==
    { i \in 2..Len(call.portfolio_history) : call.portfolio_history[i].returns.num > 0 }

\* C39: the win rate is the number of periods after the first record whose
\* return is strictly positive, divided by the number of those periods, in
\* percent: a period of return 0 is not a win and the first record is not a
\* period.
C39_WinRate ==
    (call.op = "calculate_metrics" /\ ret[1] # EmptyMetrics) =>
        ret[1].win_rate_pct = Frac(Cardinality(WinningRecords) * 100, Periods)

\* a report over a winning and a flat period: one win in two
C39_Witness ==
    /\ call.op = "calculate_metrics" /\ ret[1] # EmptyMetrics
    /\ Periods = 2 /\ Cardinality(WinningRecords) = 1
    /\ \E i \in 2..3 : call.portfolio_history[i].returns.num = 0
    /\ ret[1].win_rate_pct = Frac(50, 1)

\* a report over one flat period: no win
C39_WitnessFlat ==
    /\ call.op = "calculate_metrics" /\ ret[1] # EmptyMetrics
    /\ Periods = 1 /\ call.portfolio_history[2].returns.num = 0
    /\ ret[1].win_rate_pct = Frac(0, 1)


\* the shares of the trades of the ledger for one instrument and one action
RECURSIVE LedgerShares(_, _, _)
LedgerShares(trs, ticker, action) ==
    IF trs = << >> THEN 0
    ELSE (IF Head(trs).ticker = ticker /\ Head(trs).action = action
          THEN Head(trs).shares ELSE 0)
         + LedgerShares(Tail(trs), ticker, action)

\* the shares held of an instrument, 0 without a position
HeldShares(ticker) ==
    IF HasPos(positions, ticker) THEN PosOf(positions, ticker).shares ELSE 0

\* C40: in every reachable state and for every instrument, the shares of its
\* position (0 without a position) are the shares of its BUY trades less the
\* shares of its SELL trades in the ledger.
C40_ShareConservation ==
    \A ticker \in Tickers :
        HeldShares(ticker) = LedgerShares(trades, ticker, "BUY")
                             - LedgerShares(trades, ticker, "SELL")

\* a position that is what a buy bought less what a partial sell sold
C40_Witness ==
    /\ Len(trades) = 2
    /\ trades[1].action = "BUY" /\ trades[2].action = "SELL"
    /\ trades[1].ticker = trades[2].ticker
    /\ HeldShares(trades[1].ticker) > 0
    /\ HeldShares(trades[1].ticker) = trades[1].shares - trades[2].shares

\* a position built by two buys
C40_WitnessTopUp ==
    /\ Len(trades) = 2
    /\ trades[1].action = "BUY" /\ trades[2].action = "BUY"
    /\ trades[1].ticker = trades[2].ticker
    /\ HeldShares(trades[1].ticker) = trades[1].shares + trades[2].shares

====
